---- MODULE Spec2Model ----
(***************************************************************************)
(* Timesheet tracker: the authorization / approval model.                  *)
(*                                                                         *)
(* Data layer: the tables auth.users, user_roles, profiles, projects,      *)
(* project_hods, timesheets and notifications with their row policies.     *)
(* Privileged layer: the serverless handlers (admin-update-role, ...).     *)
(* Client layer: the Reports page of a reviewer.                           *)
(***************************************************************************)
EXTENDS Integers, Sequences, FiniteSets, Bags, TLC

None == "none"

\* Account identifiers (auth.users.id) the model draws from.
Accounts == {"alice", "bob", "carol"}

\* public.app_role: 'admin', 'user', and 'hod' added with project_hods.
AppRole == {"admin", "user", "hod"}

\* Number of handler invocations (request slots) of one behaviour.
MaxCalls == 2

Slots == 1..MaxCalls

VARIABLES
    authUsers,      \* auth.users: the signed-up accounts
    credentials,    \* auth.users: account -> password
    user_roles,     \* public.user_roles: set of [user_id, role] (UNIQUE (user_id, role))
    profiles,       \* public.profiles: account -> [employee_id, password_changed_at]
    notifications,  \* public.notifications: a bag of rows (the id column left out)
    calls,          \* the handler invocations: slot -> request record
    project_hods,   \* public.project_hods: set of [project_id, user_id]
    timesheets,     \* public.timesheets: id -> row, for the rows that exist
    ts_seq,         \* number of timesheets rows ever inserted (ids are never reused)
    lastOp,         \* the outcome of the latest statement a client sent to the data layer
    reports,        \* the Reports page of each reviewer: account -> component state
    weekly,         \* the weekly timesheet form of one device, with its localStorage
    authContext     \* the client auth context of one browser session

tables == <<authUsers, credentials, user_roles, profiles, notifications>>
pages == <<reports, weekly, authContext>>
sheets == <<project_hods, timesheets, ts_seq, lastOp, pages>>
vars == <<authUsers, credentials, user_roles, profiles, notifications, calls,
          project_hods, timesheets, ts_seq, lastOp, reports, weekly, authContext>>

(***************************************************************************)
(* Data layer: role predicate and signup trigger                           *)
(***************************************************************************)

\* public.has_role(_user_id, _role)
has_role(_user_id, _role) ==
    \E row \in user_roles : row.user_id = _user_id /\ row.role = _role

\* The rows of user_roles of one account.
RolesOf(u) == {row \in user_roles : row.user_id = u}

\* handle_new_user_role: AFTER INSERT ON auth.users, insert (NEW.id, 'user').
handle_new_user_role(u) == user_roles \cup {[user_id |-> u, role |-> "user"]}

(***************************************************************************)
(* Privileged handlers: the shared authentication prefix                   *)
(***************************************************************************)

\* Absent from a JSON response body.
Absent == -1

\* A request slot. authHeader, caller: the request's credential; userId, arg: the
\* parsed body; data: what the handler holds between two statements; status, error,
\* success, notified, skipped: the response (status and JSON body); bodyRead:
\* req.json() was called; issued: the write statements sent to the data store.
IdleCall ==
    [h |-> None, pc |-> "idle", authHeader |-> None, caller |-> None,
     userId |-> None, arg |-> None, data |-> {},
     status |-> 0, error |-> None, success |-> FALSE,
     notified |-> Absent, skipped |-> Absent, bodyRead |-> FALSE, issued |-> {}]

\* Request slots are taken in order.
SlotFree(r) == calls[r].pc = "idle" /\ \A q \in Slots : q < r => calls[q].pc # "idle"

\* The request as received: handler name and credential.
Received(h, authHeader, tokenUser) ==
    [IdleCall EXCEPT !.h = h, !.authHeader = authHeader, !.caller = tokenUser]

\* An { error } response with its status: the call is done.
Respond(c, status, error) == [c EXCEPT !.pc = "done", !.status = status, !.error = error]

\* The { success: true, ... } response with status 200.
Succeed(c) == [c EXCEPT !.pc = "done", !.status = 200, !.success = TRUE]

\* The catch block that encloses the handler body: the { error: message }
\* response with status 500.
Caught_Propagates(c, message) == [c EXCEPT !.pc = "crashed"]

Caught(c, message) == Respond(c, 500, message)

\* Steps 2-4 of every handler: Authorization header, auth.getUser(), rpc has_role.
\* authHeader is None when the header is absent; tokenUser is the account the
\* bearer token resolves to, None when getUser() yields an error or no user.
Authorize_NoRoleCheck(authHeader, tokenUser) ==
    IF authHeader = None THEN [status |-> 401, error |-> "No authorization header"]
    ELSE IF tokenUser = None THEN [status |-> 401, error |-> "Unauthorized"]
    ELSE [status |-> 200, error |-> None]

Authorize(authHeader, tokenUser) ==
    IF authHeader = None THEN [status |-> 401, error |-> "No authorization header"]
    ELSE IF tokenUser = None THEN [status |-> 401, error |-> "Unauthorized"]
    ELSE IF ~has_role(tokenUser, "admin")
         THEN [status |-> 403, error |-> "Admin access required"]
    ELSE [status |-> 200, error |-> None]

(***************************************************************************)
(* admin-update-role                                                       *)
(***************************************************************************)

\* A request body: parses is FALSE when req.json() cannot parse it (it throws);
\* a field the JSON object lacks is None.
Malformed(body) == ~body.parses

\* "Prevent admin from demoting themselves"
IsSelfDemotion_OnlyUser(callerId, userId, newRole) ==
    userId = callerId /\ newRole = "user"

IsSelfDemotion(callerId, userId, newRole) ==
    userId = callerId /\ newRole # "admin"

\* From the request to the first write: authenticate, authorize, parse, validate.
UpdateRoleStart(r, authHeader, tokenUser, body) ==
    /\ SlotFree(r)
    /\ LET auth == Authorize(authHeader, tokenUser)
           c0 == Received("admin-update-role", authHeader, tokenUser)
           c1 == [c0 EXCEPT !.bodyRead = TRUE]
           c2 == IF Malformed(body) THEN c1
                 ELSE [c1 EXCEPT !.userId = body.userId, !.arg = body.newRole]
       IN calls' = [calls EXCEPT ![r] =
            IF auth.status # 200 THEN Respond(c0, auth.status, auth.error)
            ELSE IF Malformed(body) THEN Caught(c1, "Unexpected token")
            ELSE IF body.userId = None \/ body.newRole = None
                 THEN Respond(c2, 400, "userId and newRole are required")
            ELSE IF body.newRole \notin {"admin", "user", "hod"}
                 THEN Respond(c2, 400, "Invalid role")
            ELSE IF IsSelfDemotion(tokenUser, body.userId, body.newRole)
                 THEN Respond(c2, 400, "Cannot change your own admin role")
            ELSE [c2 EXCEPT !.pc = "delete"]]
    /\ UNCHANGED <<tables, sheets>>

\* supabaseAdmin.from("user_roles").delete().eq("user_id", userId)
\* dbError: the data store answers the statement with an error.
UpdateRoleDelete(r, dbError) ==
    /\ calls[r].pc = "delete"
    /\ LET c == [calls[r] EXCEPT !.issued = @ \cup {"delete"}]
       IN IF dbError
          THEN /\ calls' = [calls EXCEPT ![r] = Respond(c, 400, "delete failed")]
               /\ UNCHANGED user_roles
          ELSE /\ user_roles' = {row \in user_roles : row.user_id # c.userId}
               /\ calls' = [calls EXCEPT ![r] = [c EXCEPT !.pc = "insert"]]
    /\ UNCHANGED <<authUsers, credentials, profiles, notifications, sheets>>

\* The role table after the insert answered with an error: the handler returns
\* the error and writes nothing more.
AfterInsertError_Restored(rows, userId) == rows \cup {[user_id |-> userId, role |-> "user"]}

AfterInsertError(rows, userId) == rows

\* supabaseAdmin.from("user_roles").insert({ user_id: userId, role: newRole })
\* The insert is refused by the foreign key to auth.users and by UNIQUE (user_id, role).
UpdateRoleInsert(r, dbError) ==
    /\ calls[r].pc = "insert"
    /\ calls[r].h = "admin-update-role"
    /\ LET c == [calls[r] EXCEPT !.issued = @ \cup {"insert"}]
           newRow == [user_id |-> c.userId, role |-> c.arg]
       IN IF dbError \/ c.userId \notin authUsers \/ newRow \in user_roles
          THEN /\ calls' = [calls EXCEPT ![r] = Respond(c, 400, "insert failed")]
               /\ user_roles' = AfterInsertError(user_roles, c.userId)
          ELSE /\ user_roles' = user_roles \cup {newRow}
               /\ calls' = [calls EXCEPT ![r] = Succeed(c)]
    /\ UNCHANGED <<authUsers, credentials, profiles, notifications, sheets>>

(***************************************************************************)
(* Accounts: signup and its triggers                                       *)
(***************************************************************************)

\* Employee codes as typed: absent, empty, blank, and codes with and without padding.
EmpIdInputs == {None, "", " ", "E1", " E1 ", "E2"}

\* String.prototype.trim on the strings above.
Trim(s) == CASE s = " " -> "" [] s = " E1 " -> "E1" [] OTHER -> s

\* Passwords as typed: absent, shorter than six characters, and two valid ones.
PasswordInputs == {None, "abc", "secret1", "hunter22"}

\* profiles.password_changed_at before any admin password change.
NeverChanged == "never"

\* handle_new_user: AFTER INSERT ON auth.users, the profile row from the signup metadata.
handle_new_user(u, metaEmployeeId) ==
    [x \in authUsers \cup {u} |->
        IF x = u THEN [employee_id |-> metaEmployeeId, password_changed_at |-> NeverChanged]
        ELSE profiles[x]]

\* INSERT INTO auth.users with both triggers (profile row, role row).
InsertAuthUser(u, password, metaEmployeeId) ==
    /\ authUsers' = authUsers \cup {u}
    /\ credentials' = [x \in authUsers \cup {u} |-> IF x = u THEN password ELSE credentials[x]]
    /\ profiles' = handle_new_user(u, metaEmployeeId)
    /\ user_roles' = handle_new_user_role(u)

\* Auth page onSignupSubmit: the form requires a non-empty employee code and a
\* password of six or more characters; the email is not yet registered.
SignUp(u, employeeId, password) ==
    /\ u \in Accounts \ authUsers
    /\ employeeId \notin {None, ""}
    /\ password # None /\ Len(password) >= 6
    /\ InsertAuthUser(u, password, employeeId)
    /\ UNCHANGED <<notifications, calls, sheets>>

\* ProfileMenu handleSave: the signed-in account writes its own profiles row
\* ("Users can update own profile"), the code trimmed and null when blank.
handleSave(u, editEmpId) ==
    /\ u \in authUsers
    /\ profiles' = [profiles EXCEPT ![u].employee_id =
                       IF Trim(editEmpId) = "" THEN None ELSE Trim(editEmpId)]
    /\ UNCHANGED <<authUsers, credentials, user_roles, notifications, calls, sheets>>

(***************************************************************************)
(* admin-update-employee-id                                                *)
(***************************************************************************)

\* JavaScript truthiness of a string-or-missing value.
Truthy(s) == s # None /\ s # ""

\* .from("profiles").select("id").eq("employee_id", code).neq("id", userId)
OtherHolders(code, userId) ==
    {x \in authUsers : profiles[x].employee_id = code /\ x # userId}

\* From the request to the write: authenticate, authorize, parse, validate, and
\* the uniqueness check when the code is not blank.
UpdateEmployeeIdStart(r, authHeader, tokenUser, body, dbError) ==
    /\ SlotFree(r)
    /\ LET auth == Authorize(authHeader, tokenUser)
           c0 == Received("admin-update-employee-id", authHeader, tokenUser)
           c1 == [c0 EXCEPT !.bodyRead = TRUE]
           c2 == IF Malformed(body) THEN c1
                 ELSE [c1 EXCEPT !.userId = body.userId, !.arg = body.employeeId]
           checked == Truthy(body.employeeId) /\ Trim(body.employeeId) # ""
           holders == OtherHolders(Trim(body.employeeId), body.userId)
       IN calls' = [calls EXCEPT ![r] =
            IF auth.status # 200 THEN Respond(c0, auth.status, auth.error)
            ELSE IF Malformed(body) THEN Caught(c1, "Unexpected token")
            ELSE IF body.userId = None THEN Respond(c2, 400, "userId is required")
            ELSE IF checked /\ (dbError \/ Cardinality(holders) > 1)
                 THEN Respond(c2, 400, "check failed")
            ELSE IF checked /\ holders # {}
                 THEN Respond(c2, 400, "Employee ID is already in use by another user")
            ELSE [c2 EXCEPT !.pc = "update"]]
    /\ UNCHANGED <<tables, sheets>>

\* .from("profiles").update({ employee_id: employeeId?.trim() || null }).eq("id", userId)
UpdateEmployeeIdWrite(r, dbError) ==
    /\ calls[r].pc = "update"
    /\ calls[r].h = "admin-update-employee-id"
    /\ LET c == [calls[r] EXCEPT !.issued = @ \cup {"update"}]
           trimmed == IF c.arg = None THEN None ELSE Trim(c.arg)
           value == IF Truthy(trimmed) THEN trimmed ELSE None
       IN IF dbError
          THEN /\ calls' = [calls EXCEPT ![r] = Respond(c, 400, "update failed")]
               /\ UNCHANGED profiles
          ELSE /\ profiles' = [x \in authUsers |->
                     IF x = c.userId THEN [profiles[x] EXCEPT !.employee_id = value]
                     ELSE profiles[x]]
               /\ calls' = [calls EXCEPT ![r] = Succeed(c)]
    /\ UNCHANGED <<authUsers, credentials, user_roles, notifications, sheets>>

(***************************************************************************)
(* admin-update-password                                                   *)
(***************************************************************************)

\* profiles.password_changed_at after an admin password change.
Stamped == "stamped"

UpdatePasswordStart(r, authHeader, tokenUser, body) ==
    /\ SlotFree(r)
    /\ LET auth == Authorize(authHeader, tokenUser)
           c0 == Received("admin-update-password", authHeader, tokenUser)
           c1 == [c0 EXCEPT !.bodyRead = TRUE]
           c2 == IF Malformed(body) THEN c1
                 ELSE [c1 EXCEPT !.userId = body.userId, !.arg = body.newPassword]
       IN calls' = [calls EXCEPT ![r] =
            IF auth.status # 200 THEN Respond(c0, auth.status, auth.error)
            ELSE IF Malformed(body) THEN Caught(c1, "Unexpected token")
            ELSE IF body.userId = None \/ ~Truthy(body.newPassword)
                 THEN Respond(c2, 400, "Missing userId or newPassword")
            ELSE IF Len(body.newPassword) < 6
                 THEN Respond(c2, 400, "Password must be at least 6 characters")
            ELSE [c2 EXCEPT !.pc = "password"]]
    /\ UNCHANGED <<tables, sheets>>

\* supabaseAdmin.auth.admin.updateUserById(userId, { password }), then the
\* password_changed_at stamp, whose outcome the handler does not inspect.
UpdatePasswordWrite(r, idpError, stampError) ==
    /\ calls[r].pc = "password"
    /\ LET c == [calls[r] EXCEPT !.issued = @ \cup {"updateUserById"}]
           d == [c EXCEPT !.issued = @ \cup {"update"}]
       IN IF idpError \/ c.userId \notin authUsers
          THEN /\ calls' = [calls EXCEPT ![r] = Respond(c, 400, "User not found")]
               /\ UNCHANGED <<credentials, profiles>>
          ELSE /\ credentials' = [credentials EXCEPT ![c.userId] = c.arg]
               /\ profiles' = IF stampError THEN profiles
                              ELSE [profiles EXCEPT ![c.userId].password_changed_at = Stamped]
               /\ calls' = [calls EXCEPT ![r] = Succeed(d)]
    /\ UNCHANGED <<authUsers, user_roles, notifications, sheets>>

(***************************************************************************)
(* get-all-users                                                           *)
(***************************************************************************)

\* Three bulk reads (profiles, project_assignments, user_roles) joined in the
\* handler; a role-less account is listed as "user". The body is { users }.
GetAllUsers(r, authHeader, tokenUser, dbError) ==
    /\ SlotFree(r)
    /\ LET auth == Authorize(authHeader, tokenUser)
           c0 == Received("get-all-users", authHeader, tokenUser)
           users == {[id |-> x,
                      employeeId |-> profiles[x].employee_id,
                      role |-> IF RolesOf(x) = {} THEN "user"
                               ELSE (CHOOSE row \in RolesOf(x) : TRUE).role] : x \in authUsers}
       IN calls' = [calls EXCEPT ![r] =
            IF auth.status # 200 THEN Respond(c0, auth.status, auth.error)
            ELSE IF dbError THEN Respond(c0, 400, "read failed")
            ELSE [c0 EXCEPT !.pc = "done", !.status = 200, !.data = users]]
    /\ UNCHANGED <<tables, sheets>>

(***************************************************************************)
(* admin-create-user                                                       *)
(***************************************************************************)

\* .from("profiles").select("id").eq("employee_id", employeeId)
Holders(code) == {x \in authUsers : profiles[x].employee_id = code}

\* From the request to the identity-provider call: authenticate, authorize,
\* parse, validate, and the employee-code check. The email names the account.
CreateUserStart(r, authHeader, tokenUser, body, dbError) ==
    /\ SlotFree(r)
    /\ LET auth == Authorize(authHeader, tokenUser)
           c0 == Received("admin-create-user", authHeader, tokenUser)
           c1 == [c0 EXCEPT !.bodyRead = TRUE]
           c2 == IF Malformed(body) THEN c1
                 ELSE [c1 EXCEPT !.userId = body.email, !.arg = body.employeeId,
                                 !.data = {body.password}]
       IN calls' = [calls EXCEPT ![r] =
            IF auth.status # 200 THEN Respond(c0, auth.status, auth.error)
            ELSE IF Malformed(body) THEN Caught(c1, "Unexpected token")
            ELSE IF \/ ~Truthy(body.firstName) \/ ~Truthy(body.lastName)
                    \/ ~Truthy(body.employeeId) \/ ~Truthy(body.email)
                    \/ ~Truthy(body.password)
                 THEN Respond(c2, 400, "All fields are required")
            ELSE IF Len(body.password) < 6
                 THEN Respond(c2, 400, "Password must be at least 6 characters")
            ELSE IF dbError \/ Cardinality(Holders(body.employeeId)) > 1
                 THEN Respond(c2, 500, "Failed to validate employee ID")
            ELSE IF Holders(body.employeeId) # {}
                 THEN Respond(c2, 400, "Employee ID already exists")
            ELSE [c2 EXCEPT !.pc = "create"]]
    /\ UNCHANGED <<tables, sheets>>

\* supabaseAdmin.auth.admin.createUser with the metadata the triggers read.
CreateUserCreate(r, idpError) ==
    /\ calls[r].pc = "create"
    /\ LET c == [calls[r] EXCEPT !.issued = @ \cup {"createUser"}]
       IN IF c.userId \in authUsers
          THEN /\ calls' = [calls EXCEPT ![r] = Respond(c, 400, "Email already registered")]
               /\ UNCHANGED <<authUsers, credentials, profiles, user_roles>>
          ELSE IF idpError
          THEN /\ calls' = [calls EXCEPT ![r] = Respond(c, 400, "createUser failed")]
               /\ UNCHANGED <<authUsers, credentials, profiles, user_roles>>
          ELSE /\ InsertAuthUser(c.userId, CHOOSE p \in c.data : TRUE, c.arg)
               /\ calls' = [calls EXCEPT ![r] = [c EXCEPT !.pc = "profile"]]
    /\ UNCHANGED <<notifications, sheets>>

\* .from("profiles").update({ display_name, employee_id }).eq("id", newUser.user.id);
\* a failure is logged and the handler still answers 200.
CreateUserProfile(r, dbError) ==
    /\ calls[r].pc = "profile"
    /\ LET c == [calls[r] EXCEPT !.issued = @ \cup {"update"}]
       IN /\ profiles' = IF dbError \/ c.userId \notin authUsers THEN profiles
                         ELSE [profiles EXCEPT ![c.userId].employee_id = c.arg]
          /\ calls' = [calls EXCEPT ![r] = Succeed(c)]
    /\ UNCHANGED <<authUsers, credentials, user_roles, notifications, sheets>>

(***************************************************************************)
(* notify-missing-empid                                                    *)
(***************************************************************************)

\* A notifications row.
Notification(user_id, type, project, timesheet_id) ==
    [user_id |-> user_id, type |-> type, is_read |-> FALSE,
     project |-> project, timesheet_id |-> timesheet_id]

EmpIdNotification(u) == Notification(u, "empid_setup", None, 0)

\* .from("profiles").select(...).or("employee_id.is.null,employee_id.eq."), then
\* the filter !p.employee_id || p.employee_id.trim() === "" over the rows read.
UsersWithoutEmpId ==
    {x \in {y \in authUsers : profiles[y].employee_id \in {None, ""}} :
        ~Truthy(profiles[x].employee_id) \/ Trim(profiles[x].employee_id) = ""}

\* .from("notifications").select("user_id").eq("type", "empid_setup").eq("is_read", false)
UsersWithUnreadEmpId ==
    {n.user_id : n \in {m \in BagToSet(notifications) :
                           m.type = "empid_setup" /\ m.is_read = FALSE}}

\* From the request to the second read.
NotifyStart(r, authHeader, tokenUser, dbError) ==
    /\ SlotFree(r)
    /\ LET auth == Authorize(authHeader, tokenUser)
           c0 == Received("notify-missing-empid", authHeader, tokenUser)
       IN calls' = [calls EXCEPT ![r] =
            IF auth.status # 200 THEN Respond(c0, auth.status, auth.error)
            ELSE IF dbError THEN Respond(c0, 400, "read failed")
            ELSE IF UsersWithoutEmpId = {}
                 THEN [Succeed(c0) EXCEPT !.notified = 0]
            ELSE [c0 EXCEPT !.pc = "existing",
                            !.data = {[id |-> x, insert |-> TRUE] : x \in UsersWithoutEmpId}]]
    /\ UNCHANGED <<tables, sheets>>

\* The read of the unread notifications (an error leaves the list empty) and
\* the filter of the accounts that already have one.
NotifyExisting(r, dbError) ==
    /\ calls[r].pc = "existing"
    /\ LET c == calls[r]
           existing == IF dbError THEN {} ELSE UsersWithUnreadEmpId
           marked == {[id |-> u.id, insert |-> u.id \notin existing] : u \in c.data}
       IN calls' = [calls EXCEPT ![r] =
            IF \A u \in marked : ~u.insert
            THEN [Succeed(c) EXCEPT !.notified = 0]
            ELSE [c EXCEPT !.pc = "insert", !.data = marked]]
    /\ UNCHANGED <<tables, sheets>>

\* .from("notifications").insert(notificationsToInsert)
NotifyInsert(r, dbError) ==
    /\ calls[r].pc = "insert"
    /\ calls[r].h = "notify-missing-empid"
    /\ LET c == [calls[r] EXCEPT !.issued = @ \cup {"insert"}]
           toInsert == {u.id : u \in {v \in c.data : v.insert}}
       IN IF dbError
          THEN /\ calls' = [calls EXCEPT ![r] = Respond(c, 400, "insert failed")]
               /\ UNCHANGED notifications
          ELSE /\ notifications' = notifications (+) SetToBag({EmpIdNotification(u) : u \in toInsert})
               /\ calls' = [calls EXCEPT ![r] =
                     [Succeed(c) EXCEPT !.notified = Cardinality(toInsert),
                                        !.skipped = Cardinality(c.data) - Cardinality(toInsert)]]
    /\ UNCHANGED <<authUsers, credentials, user_roles, profiles, sheets>>

(***************************************************************************)
(* Data layer: timesheets and their row policies                           *)
(***************************************************************************)

\* Number of timesheets rows inserted in one behaviour.
MaxEntries == 1

\* public.projects (name UNIQUE), two of the seeded rows.
Projects == {[id |-> "p1", name |-> "Alpha"], [id |-> "p2", name |-> "Beta"]}

ProjectNames == {p.name : p \in Projects}

TimesheetStatus == {"pending", "approved", "rejected"}

\* EXISTS (SELECT 1 FROM project_hods ph JOIN projects p ON ph.project_id = p.id
\*         WHERE ph.user_id = _user_id AND p.name = _project_name)
is_project_hod(_user_id, _project_name) ==
    \E ph \in project_hods, p \in Projects :
        ph.project_id = p.id /\ ph.user_id = _user_id /\ p.name = _project_name

\* FOR SELECT: "Users can view own timesheets", "Admins can view all timesheets",
\* "HODs can view timesheets of their projects" (permissive policies are OR-ed).
TsSelectPolicy_ViewAll(uid, row) == TRUE

TsSelectPolicy(uid, row) ==
    \/ uid = row.user_id
    \/ has_role(uid, "admin")
    \/ is_project_hod(uid, row.project)

\* FOR UPDATE: "Users can update their own timesheets", "Admins can update any
\* timesheet", "HODs can update timesheets of their projects". A policy without
\* WITH CHECK applies its USING expression to the new row as well.
TsUpdatePolicy(uid, row) ==
    \/ uid = row.user_id
    \/ has_role(uid, "admin")
    \/ is_project_hod(uid, row.project)

\* FOR DELETE: "Users can delete own timesheets", "Admins can delete any timesheet".
TsDeletePolicy_HodToo(uid, row) ==
    \/ uid = row.user_id
    \/ has_role(uid, "admin")
    \/ is_project_hod(uid, row.project)

TsDeletePolicy(uid, row) ==
    \/ uid = row.user_id
    \/ has_role(uid, "admin")

\* FOR INSERT: "Users can create their own timesheets" WITH CHECK (auth.uid() = user_id).
TsInsertPolicy(uid, row) == uid = row.user_id

\* CHECK (hours > 0), CHECK (status IN ('pending', 'approved', 'rejected')).
TsConstraints(row) == row.hours > 0 /\ row.status \in TimesheetStatus

\* notifications FOR INSERT: "Admins can create notifications".
NotificationInsertPolicy(uid) == has_role(uid, "admin")

\* No statement yet, or the latest step was not a data-layer statement.
NoOp ==
    [op |-> None, caller |-> None, id |-> 0, owner |-> None, project |-> None,
     matched |-> FALSE, applied |-> FALSE, error |-> FALSE, rows |-> {}]

\* The new row of an UPDATE ... SET <patch>.
Patched(row, patch) ==
    [col \in DOMAIN row |-> IF col \in DOMAIN patch THEN patch[col] ELSE row[col]]

\* supabase.from("timesheets").update(patch).eq("id", id) as uid: the rows the
\* policies hide are not updated (no error); a new row that breaks a policy or
\* a constraint is an error. The statement's outcome and the table after it.
UpdateTimesheet(uid, id, patch) ==
    LET exists == id \in DOMAIN timesheets
        visible == exists /\ TsSelectPolicy(uid, timesheets[id])
                          /\ TsUpdatePolicy(uid, timesheets[id])
        new == Patched(timesheets[id], patch)
        op == [NoOp EXCEPT !.op = "update", !.caller = uid, !.id = id,
                           !.owner = IF exists THEN timesheets[id].user_id ELSE None,
                           !.project = IF exists THEN timesheets[id].project ELSE None]
    IN IF ~visible THEN [op |-> op, table |-> timesheets]
       ELSE IF ~TsConstraints(new) \/ ~TsUpdatePolicy(uid, new)
            THEN [op |-> [op EXCEPT !.matched = TRUE, !.error = TRUE], table |-> timesheets]
       ELSE [op |-> [op EXCEPT !.matched = TRUE, !.applied = TRUE],
             table |-> [timesheets EXCEPT ![id] = new]]

\* supabase.from("timesheets").delete().eq("id", id) as uid.
DeleteTimesheet(uid, id) ==
    LET exists == id \in DOMAIN timesheets
        visible == exists /\ TsSelectPolicy(uid, timesheets[id])
                          /\ TsDeletePolicy(uid, timesheets[id])
        op == [NoOp EXCEPT !.op = "delete", !.caller = uid, !.id = id,
                           !.owner = IF exists THEN timesheets[id].user_id ELSE None,
                           !.project = IF exists THEN timesheets[id].project ELSE None]
    IN IF ~visible THEN [op |-> op, table |-> timesheets]
       ELSE [op |-> [op EXCEPT !.matched = TRUE, !.applied = TRUE],
             table |-> [i \in DOMAIN timesheets \ {id} |-> timesheets[i]]]

\* supabase.from("timesheets").select("*") as uid over a state of the table:
\* the ids of the rows returned.
SelectTimesheets(table, uid) ==
    {id \in DOMAIN table : TsSelectPolicy(uid, table[id])}

\* CURRENT_DATE, as a day number.
Today == 10

\* A timesheets row as the submit forms insert it: status, reviewer and
\* description take the column defaults.
NewEntry(uid, project, hours, start_date, end_date) ==
    [user_id |-> uid, project |-> project, hours |-> hours, status |-> "pending",
     reviewed_by |-> None, reviewed_at |-> None, description |-> None,
     start_date |-> start_date, end_date |-> end_date]

\* The row of one day of the weekly form: start_date and end_date are the day.
NewTimesheet(uid, project, hours) == NewEntry(uid, project, hours, Today, Today)

\* supabase.from("timesheets").insert(row) as uid: the statement's outcome, the
\* table and the number of rows inserted so far after it.
InsertTimesheet(uid, row) ==
    LET id == ts_seq + 1
        ok == TsInsertPolicy(uid, row) /\ TsConstraints(row)
    IN [op |-> [NoOp EXCEPT !.op = "insert", !.caller = uid, !.id = id,
                            !.owner = row.user_id, !.project = row.project,
                            !.applied = ok, !.error = ~ok],
        table |-> IF ok THEN [i \in DOMAIN timesheets \cup {id} |->
                                 IF i = id THEN row ELSE timesheets[i]]
                  ELSE timesheets,
        seq |-> IF ok THEN id ELSE ts_seq]

\* A form that refuses its input before any statement is issued.
Refused(uid) == [NoOp EXCEPT !.op = "insert", !.caller = uid, !.error = TRUE]

\* updateHours: Math.min(24, Math.max(0, hours))
ClampHours(hours) == IF hours < 0 THEN 0 ELSE IF hours > 24 THEN 24 ELSE hours

\* WeeklyTimesheetForm onSubmit with one project and one day filled in: the
\* profile must carry an employee code, and only a day with hours > 0 is sent.
SubmitTimesheet(uid, project, hours) ==
    /\ uid \in authUsers
    /\ ts_seq < MaxEntries
    /\ LET ins == InsertTimesheet(uid, NewTimesheet(uid, project, ClampHours(hours)))
           sent == Truthy(profiles[uid].employee_id) /\ ClampHours(hours) > 0
       IN /\ timesheets' = IF sent THEN ins.table ELSE timesheets
          /\ ts_seq' = IF sent THEN ins.seq ELSE ts_seq
          /\ lastOp' = IF sent THEN ins.op ELSE Refused(uid)
    /\ UNCHANGED <<tables, calls, project_hods, pages>>

\* parseFloat / Number over the strings in use: no element stands for NaN.
parseFloat(str) ==
    CASE str = "0" -> {0} [] str = "4" -> {4} [] str = "6" -> {6}
      [] str = "8" -> {8} [] str = "25" -> {25} [] OTHER -> {}

\* formSchema of TimesheetForm: a project, 0 < Number(hours) <= 24, and
\* end_date not before start_date.
formSchema(project, hours, start_date, end_date) ==
    /\ project # ""
    /\ \E n \in parseFloat(hours) : n > 0 /\ n <= 24
    /\ end_date >= start_date

\* TimesheetForm onSubmit behind the schema: the typed employee code is saved
\* to a profile that has none, then one row is inserted.
SubmitEntry(uid, employee_id, project, hours, start_date, end_date) ==
    /\ uid \in authUsers
    /\ ts_seq < MaxEntries
    /\ IF ~formSchema(project, hours, start_date, end_date) \/ ~Truthy(employee_id)
       THEN /\ lastOp' = Refused(uid)
            /\ UNCHANGED <<profiles, timesheets, ts_seq>>
       ELSE LET ins == InsertTimesheet(uid, NewEntry(uid, project,
                           CHOOSE n \in parseFloat(hours) : TRUE, start_date, end_date))
            IN /\ profiles' = IF Truthy(profiles[uid].employee_id) THEN profiles
                              ELSE [profiles EXCEPT ![uid].employee_id = Trim(employee_id)]
               /\ timesheets' = ins.table
               /\ ts_seq' = ins.seq
               /\ lastOp' = ins.op
    /\ UNCHANGED <<authUsers, credentials, user_roles, notifications, calls,
                   project_hods, pages>>

\* A client's INSERT of one row through the data layer.
DataInsert(uid, row) ==
    /\ uid \in authUsers
    /\ ts_seq < MaxEntries
    /\ LET ins == InsertTimesheet(uid, row)
       IN timesheets' = ins.table /\ ts_seq' = ins.seq /\ lastOp' = ins.op
    /\ UNCHANGED <<tables, calls, project_hods, pages>>

\* A client's SELECT through the data layer.
DataSelect(uid) ==
    /\ uid \in authUsers
    /\ lastOp' = [NoOp EXCEPT !.op = "select", !.caller = uid, !.rows = SelectTimesheets(timesheets, uid)]
    /\ UNCHANGED <<tables, calls, project_hods, timesheets, ts_seq, pages>>

\* A client's UPDATE of one row through the data layer.
DataUpdate(uid, id, patch) ==
    /\ uid \in authUsers
    /\ LET u == UpdateTimesheet(uid, id, patch)
       IN timesheets' = u.table /\ lastOp' = u.op
    /\ UNCHANGED <<tables, calls, project_hods, ts_seq, pages>>

\* A client's DELETE of one row through the data layer.
DataDelete(uid, id) ==
    /\ uid \in authUsers
    /\ LET d == DeleteTimesheet(uid, id)
       IN timesheets' = d.table /\ lastOp' = d.op
    /\ UNCHANGED <<tables, calls, project_hods, ts_seq, pages>>

(***************************************************************************)
(* Dashboard statistics                                                    *)
(***************************************************************************)

\* UPPER over the project names in use.
Upper(str) ==
    CASE str = "Alpha" -> "ALPHA" [] str = "Beta" -> "BETA"
      [] str = "Leave" -> "LEAVE" [] OTHER -> str

\* excluded_projects text[] := ARRAY['LEAVE', 'HOLIDAY']
excluded_projects == {"LEAVE", "HOLIDAY"}

\* SUM over a column given as a function from row ids to values.
RECURSIVE Sum(_)
Sum(column) ==
    IF DOMAIN column = {} THEN 0
    ELSE LET i == CHOOSE j \in DOMAIN column : TRUE
         IN column[i] + Sum([j \in DOMAIN column \ {i} |-> column[j]])

\* get_dashboard_stats as called by uid: over the whole table for an admin,
\* over the rows WHERE user_id = auth.uid() otherwise.
get_dashboard_stats_AllRows(uid) ==
    LET rows == DOMAIN timesheets
        counted(id) == Upper(timesheets[id].project) \notin excluded_projects
    IN [total_hours |-> Sum([id \in rows |->
            IF timesheets[id].status = "approved" /\ counted(id)
            THEN timesheets[id].hours ELSE 0]),
        total_projects |-> Cardinality({timesheets[id].project : id \in rows}),
        this_week_hours |-> Sum([id \in rows |->
            IF /\ timesheets[id].start_date >= Today - 7
               /\ timesheets[id].status \in {"approved", "pending"}
               /\ counted(id)
            THEN timesheets[id].hours ELSE 0]),
        total_entries |-> Cardinality(rows)]

get_dashboard_stats(uid) ==
    LET rows == IF has_role(uid, "admin") THEN DOMAIN timesheets
                ELSE {id \in DOMAIN timesheets : timesheets[id].user_id = uid}
        counted(id) == Upper(timesheets[id].project) \notin excluded_projects
    IN [total_hours |-> Sum([id \in rows |->
            IF timesheets[id].status = "approved" /\ counted(id)
            THEN timesheets[id].hours ELSE 0]),
        total_projects |-> Cardinality({timesheets[id].project : id \in rows}),
        this_week_hours |-> Sum([id \in rows |->
            IF /\ timesheets[id].start_date >= Today - 7
               /\ timesheets[id].status \in {"approved", "pending"}
               /\ counted(id)
            THEN timesheets[id].hours ELSE 0]),
        total_entries |-> Cardinality(rows)]

(***************************************************************************)
(* The Reports page                                                        *)
(***************************************************************************)

\* new Date().toISOString() of a review.
Now == "now"

\* get_user_role: SELECT role FROM user_roles WHERE user_id = _user_id LIMIT 1;
\* without ORDER BY any of the account's rows may be the one returned.
get_user_role(_user_id) == {row.role : row \in RolesOf(_user_id)}

\* useAuth fetchUserRole: the role read, "user" when none is returned.
fetchUserRole(userId) ==
    IF get_user_role(userId) = {} THEN {"user"} ELSE get_user_role(userId)

\* useAuth fetchHodStatus: the names of the projects the account heads.
fetchHodStatus(userId) ==
    {p.name : p \in {q \in Projects :
                 \E ph \in project_hods : ph.user_id = userId /\ ph.project_id = q.id}}

\* A page that is open, with the loaded entries and the entry in the edit dialog.
OpenPage(isAdmin, hodProjects, loaded) ==
    [open |-> TRUE, isAdmin |-> isAdmin, isHod |-> hodProjects # {},
     hodProjects |-> hodProjects, timesheets |-> loaded, editingEntry |-> <<>>]

\* fetchTimesheets: the rows the session may see, for a department head who is
\* not an admin narrowed to the projects they head.
fetchTimesheets(table, uid, page) ==
    LET ids == {id \in SelectTimesheets(table, uid) :
                   (~page.isAdmin /\ page.isHod /\ page.hodProjects # {})
                       => table[id].project \in page.hodProjects}
    IN [id \in ids |-> table[id]]

\* The statement a page step reports when it issues none to timesheets.
PageOp(name, uid) == [NoOp EXCEPT !.op = name, !.caller = uid]

\* Mounting the page: admins and department heads only, then the first fetch.
OpenReports(u) ==
    /\ u \in authUsers
    /\ ~reports[u].open
    /\ \E role \in fetchUserRole(u) :
         LET page == OpenPage(role = "admin", fetchHodStatus(u), <<>>)
         IN /\ page.isAdmin \/ page.isHod
            /\ reports' = [reports EXCEPT ![u] =
                   [page EXCEPT !.timesheets = fetchTimesheets(timesheets, u, page)]]
    /\ lastOp' = PageOp("fetch", u)
    /\ UNCHANGED <<tables, calls, project_hods, timesheets, ts_seq, weekly, authContext>>

\* `timesheet_${newStatus}`
NotificationType(newStatus) ==
    IF newStatus = "approved" THEN "timesheet_approved" ELSE "timesheet_rejected"

\* The approve and reject buttons of a row shown as pending: the update of
\* status and reviewer, the notification for the owner (a refused insert is only
\* logged), and the refresh of the list.
handleStatusChange(u, id, newStatus) ==
    /\ reports[u].open
    /\ reports[u].editingEntry = <<>>
    /\ id \in DOMAIN reports[u].timesheets
    /\ reports[u].timesheets[id].status = "pending"
    /\ LET entry == reports[u].timesheets[id]
           upd == UpdateTimesheet(u, id, [status |-> newStatus, reviewed_by |-> u,
                                          reviewed_at |-> Now])
       IN /\ timesheets' = upd.table
          /\ lastOp' = upd.op
          /\ IF upd.op.error
             THEN UNCHANGED <<notifications, reports>>
             ELSE /\ notifications' =
                        IF NotificationInsertPolicy(u)
                        THEN notifications (+) SetToBag({Notification(entry.user_id,
                                 NotificationType(newStatus), entry.project, id)})
                        ELSE notifications
                  /\ reports' = [reports EXCEPT ![u].timesheets =
                                    fetchTimesheets(upd.table, u, reports[u])]
    /\ UNCHANGED <<authUsers, credentials, user_roles, profiles, calls, project_hods, ts_seq, weekly, authContext>>

\* The delete button, shown to admins: delete, then refresh.
handleDelete(u, id) ==
    /\ reports[u].open
    /\ reports[u].editingEntry = <<>>
    /\ reports[u].isAdmin
    /\ id \in DOMAIN reports[u].timesheets
    /\ LET del == DeleteTimesheet(u, id)
       IN /\ timesheets' = del.table
          /\ lastOp' = del.op
          /\ reports' = [reports EXCEPT ![u].timesheets =
                            fetchTimesheets(del.table, u, reports[u])]
    /\ UNCHANGED <<tables, calls, project_hods, ts_seq, weekly, authContext>>

\* The pencil button of a row: the dialog keeps the row as it was loaded.
openEditDialog(u, id) ==
    /\ reports[u].open
    /\ reports[u].editingEntry = <<>>
    /\ id \in DOMAIN reports[u].timesheets
    /\ reports' = [reports EXCEPT ![u].editingEntry =
                      [i \in {id} |-> reports[u].timesheets[id]]]
    /\ lastOp' = PageOp("dialog", u)
    /\ UNCHANGED <<tables, calls, project_hods, timesheets, ts_seq, weekly, authContext>>

\* Dismissing the dialog: setEditingEntry(null).
closeEditDialog(u) ==
    /\ reports[u].open
    /\ reports[u].editingEntry # <<>>
    /\ reports' = [reports EXCEPT ![u].editingEntry = <<>>]
    /\ lastOp' = PageOp("dismiss", u)
    /\ UNCHANGED <<tables, calls, project_hods, timesheets, ts_seq, weekly, authContext>>

\* What the reviewer may leave in the hours and description inputs.
EditHoursInputs == {"", "0", "6", "25"}

EditDescriptionInputs == {" ", "note"}

\* parseFloat(entry.hours).toString()
HoursToString(hours) ==
    CASE hours = 4 -> "4" [] hours = 6 -> "6" [] hours = 8 -> "8"
      [] hours = 24 -> "24" [] hours = 25 -> "25" [] OTHER -> "0"

\* The payload of handleUpdateDescription: always the description, the hours
\* when the dialog's copy of the entry is pending and the input parses to >= 0.
updatePayload(editingRow, editDescription, editHours) ==
    LET description == IF Trim(editDescription) = "" THEN None ELSE Trim(editDescription)
    IN IF editingRow.status = "pending" /\ editHours # ""
          /\ \E parsedHours \in parseFloat(editHours) : parsedHours >= 0
       THEN [description |-> description,
             hours |-> CHOOSE parsedHours \in parseFloat(editHours) : TRUE]
       ELSE [description |-> description]

\* The dialog's save button. The hours input is shown for a copy that is
\* pending; otherwise editHours is what openEditDialog put there. On success
\* the dialog closes and the list is refreshed; on an error it stays open.
handleUpdateDescription(u, editDescription, editHours) ==
    /\ reports[u].open
    /\ reports[u].editingEntry # <<>>
    /\ \E id \in DOMAIN reports[u].editingEntry :
         LET editingRow == reports[u].editingEntry[id]
             upd == UpdateTimesheet(u, id, updatePayload(editingRow, editDescription, editHours))
         IN /\ editingRow.status # "pending" => editHours = HoursToString(editingRow.hours)
            /\ timesheets' = upd.table
            /\ lastOp' = upd.op
            /\ reports' = IF upd.op.error THEN reports
                          ELSE [reports EXCEPT ![u].editingEntry = <<>>,
                                               ![u].timesheets =
                                                   fetchTimesheets(upd.table, u, reports[u])]
    /\ UNCHANGED <<tables, calls, project_hods, ts_seq, weekly, authContext>>

(***************************************************************************)
(* WeeklyTimesheetForm: the rows of the displayed week and their drafts    *)
(***************************************************************************)

\* The weeks the form can display: last week, this week, next week.
Weeks == {1, 2, 3}

\* startOfWeek(new Date(), { weekStartsOn: 1 })
ThisWeek == 2

\* format(currentWeekStart, "yyyy-MM-dd"): the Monday of week w as a day number.
WeekKey(w) == Today + 7 * (w - ThisWeek)

\* The rows a user has in the form: the single empty row the form resets to, a
\* row with 8 hours on Monday but no project, and a row with project and hours.
BlankEntries == <<[project |-> "", hours |-> 0]>>

FormEntries ==
    {BlankEntries,
     <<[project |-> "", hours |-> 8]>>,
     <<[project |-> "Alpha", hours |-> 8]>>,
     <<[project |-> "Alpha", hours |-> 8], [project |-> "Beta", hours |-> 0]>>}

\* JSON.stringify of a SavedDraft and JSON.parse of a stored item.
JSON_stringify(draft) == <<"json", draft.weekStart, draft.entries>>

JSON_parse(item) == [entries |-> item[3], weekStart |-> item[2]]

\* The form on mount, before any draft exists: localStorage maps the key of a
\* week to the stored item, <<>> when there is none. closure is the render onSubmit was invoked in.
EmptyForm ==
    [currentWeekStart |-> ThisWeek, entries |-> BlankEntries,
     localStorage |-> [k \in {WeekKey(w) : w \in Weeks} |-> <<>>],
     isSubmitting |-> FALSE, pc |-> "idle",
     closure |-> [currentWeekStart |-> ThisWeek, entries |-> BlankEntries],
     toast |-> None]

\* loadDraft reading the key of the current calendar week.
loadDraft_ThisWeek(storage, w) ==
    LET savedData == storage[WeekKey(ThisWeek)]
    IN IF savedData # <<>> /\ Len(JSON_parse(savedData).entries) > 0
       THEN JSON_parse(savedData).entries
       ELSE BlankEntries

\* loadDraft in the render of week w: the entries of the stored draft when it
\* has any, the empty row otherwise.
loadDraft(storage, w) ==
    LET savedData == storage[WeekKey(w)]
    IN IF savedData # <<>> /\ Len(JSON_parse(savedData).entries) > 0
       THEN JSON_parse(savedData).entries
       ELSE BlankEntries

\* clearDraft in the render of week w: localStorage.removeItem of that week's key.
clearDraft_DisplayedWeek(storage, w, shown) == [storage EXCEPT ![WeekKey(shown)] = <<>>]

clearDraft(storage, w, shown) == [storage EXCEPT ![WeekKey(w)] = <<>>]

\* setCurrentWeekStart and the effect on [currentWeekStart], which loads the draft.
GoToWeek(w) ==
    /\ w \in Weeks
    /\ weekly' = [weekly EXCEPT !.currentWeekStart = w,
                                !.entries = loadDraft(weekly.localStorage, w)]
    /\ UNCHANGED <<tables, calls, project_hods, timesheets, ts_seq, lastOp, reports, authContext>>

goToPreviousWeek == GoToWeek(weekly.currentWeekStart - 1)

goToNextWeek == GoToWeek(weekly.currentWeekStart + 1)

\* updateEntry / updateHours / addEntry / removeEntry: the inputs are disabled
\* while a submission is under way.
updateEntry(entries) ==
    /\ ~weekly.isSubmitting
    /\ weekly' = [weekly EXCEPT !.entries = entries]
    /\ UNCHANGED <<tables, calls, project_hods, timesheets, ts_seq, lastOp, reports, authContext>>

\* saveDraft: the rows shown are stored under the key of the displayed week.
saveDraft ==
    /\ ~weekly.isSubmitting
    /\ weekly' = [weekly EXCEPT
          !.localStorage[WeekKey(weekly.currentWeekStart)] =
              JSON_stringify([entries |-> weekly.entries,
                              weekStart |-> WeekKey(weekly.currentWeekStart)]),
          !.toast = "Draft saved successfully!"]
    /\ UNCHANGED <<tables, calls, project_hods, timesheets, ts_seq, lastOp, reports, authContext>>

\* entries.filter(e => e.project && getTotalHours(e) > 0)
validEntries(entries) == SelectSeq(entries, LAMBDA e : e.project # "" /\ e.hours > 0)

\* onSubmit of account uid up to the first await: the profile check and the
\* validation of the rows.
onSubmit(uid) ==
    /\ uid \in authUsers
    /\ weekly.pc = "idle" /\ ~weekly.isSubmitting
    /\ Truthy(profiles[uid].employee_id)
    /\ ts_seq < MaxEntries
    /\ weekly' =
          IF validEntries(weekly.entries) = <<>>
          THEN [weekly EXCEPT !.toast = "Please add at least one project with hours"]
          ELSE [weekly EXCEPT !.isSubmitting = TRUE, !.pc = "getUser",
                              !.closure = [currentWeekStart |-> weekly.currentWeekStart,
                                           entries |-> weekly.entries]]
    /\ UNCHANGED <<tables, calls, project_hods, timesheets, ts_seq, lastOp, reports, authContext>>

\* supabase.auth.getUser() resolves: without a user the submission ends.
onSubmitGetUser(user) ==
    /\ weekly.pc = "getUser"
    /\ weekly' =
          IF user = None
          THEN [weekly EXCEPT !.isSubmitting = FALSE, !.pc = "idle",
                              !.toast = "You must be logged in to submit a timesheet"]
          ELSE [weekly EXCEPT !.pc = "insert"]
    /\ UNCHANGED <<tables, calls, project_hods, timesheets, ts_seq, lastOp, reports, authContext>>

\* The insert of the rows of the closure resolves: on success the draft of the
\* closure's week is cleared and the form is reset; an error is only reported.
onSubmitInsert(uid, dbError) ==
    /\ weekly.pc = "insert"
    /\ uid \in authUsers
    /\ LET entry == validEntries(weekly.closure.entries)[1]
           row == NewEntry(uid, entry.project, entry.hours,
                           WeekKey(weekly.closure.currentWeekStart),
                           WeekKey(weekly.closure.currentWeekStart))
           ins == InsertTimesheet(uid, row)
           failed == dbError \/ ins.op.error
       IN /\ timesheets' = IF failed THEN timesheets ELSE ins.table
          /\ ts_seq' = IF failed THEN ts_seq ELSE ins.seq
          /\ lastOp' = IF dbError THEN Refused(uid) ELSE ins.op
          /\ weekly' =
                IF failed
                THEN [weekly EXCEPT !.isSubmitting = FALSE, !.pc = "idle",
                                    !.toast = "Failed to submit timesheet"]
                ELSE [weekly EXCEPT
                        !.localStorage = clearDraft(@, weekly.closure.currentWeekStart,
                                                    weekly.currentWeekStart),
                        !.entries = BlankEntries,
                        !.isSubmitting = FALSE, !.pc = "idle",
                        !.toast = "Successfully submitted"]
    /\ UNCHANGED <<tables, calls, project_hods, reports, authContext>>

(***************************************************************************)
(* useAuth: the client auth context                                        *)
(***************************************************************************)

\* AuthProvider on mount: no user, no role, loading; getSession not yet
\* answered; fetches are the role and head-status requests in flight, each
\* for the user id it was called with, from initializeAuth ("init") or from a
\* deferred onAuthStateChange callback ("deferred").
SignedOutContext ==
    [user |-> None, role |-> None, isHod |-> FALSE, hodProjects |-> {},
     loading |-> TRUE, getSession |-> TRUE, fetches |-> {}]

\* initializeAuth when getSession() resolves with the stored session (None
\* when there is none): with a user the role fetch is awaited first.
initializeAuth(sessionUser) ==
    /\ authContext.getSession
    /\ sessionUser \in authUsers \cup {None}
    /\ authContext' =
          IF sessionUser = None
          THEN [authContext EXCEPT !.getSession = FALSE, !.user = None, !.loading = FALSE]
          ELSE [authContext EXCEPT !.getSession = FALSE, !.user = sessionUser,
                   !.fetches = @ \cup {[fn |-> "fetchUserRole", userId |-> sessionUser,
                                        from |-> "init"]}]
    /\ UNCHANGED <<tables, calls, project_hods, timesheets, ts_seq, lastOp, reports, weekly>>

\* The onAuthStateChange callback: with a session both fetches are deferred
\* and started without being awaited; without one the context is cleared.
onAuthStateChange(sessionUser) ==
    /\ sessionUser \in authUsers \cup {None}
    /\ authContext' =
          IF sessionUser = None
          THEN [authContext EXCEPT !.user = None, !.role = None, !.isHod = FALSE,
                                   !.hodProjects = {}, !.loading = FALSE]
          ELSE [authContext EXCEPT !.user = sessionUser,
                   !.fetches = @ \cup {[fn |-> fn, userId |-> sessionUser, from |-> "deferred"] :
                                          fn \in {"fetchUserRole", "fetchHodStatus"}}]
    /\ UNCHANGED <<tables, calls, project_hods, timesheets, ts_seq, lastOp, reports, weekly>>

\* signOut: supabase.auth.signOut(), whose SIGNED_OUT event runs the callback,
\* then the setters.
signOut ==
    /\ authContext.user # None
    /\ authContext' = [authContext EXCEPT !.user = None, !.role = None, !.isHod = FALSE,
                                          !.hodProjects = {}, !.loading = FALSE]
    /\ UNCHANGED <<tables, calls, project_hods, timesheets, ts_seq, lastOp, reports, weekly>>

\* A fetchUserRole call resolves: setRole with the role read, or "user" on an
\* error; initializeAuth then awaits fetchHodStatus.
ResolveUserRole(f, error) ==
    /\ f \in authContext.fetches /\ f.fn = "fetchUserRole"
    /\ \E data \in IF error THEN {"user"} ELSE fetchUserRole(f.userId) :
          authContext' = [authContext EXCEPT
             !.role = data,
             !.fetches = (@ \ {f}) \cup
                 IF f.from = "init"
                 THEN {[fn |-> "fetchHodStatus", userId |-> f.userId, from |-> "init"]}
                 ELSE {}]
    /\ UNCHANGED <<tables, calls, project_hods, timesheets, ts_seq, lastOp, reports, weekly>>

\* A fetchHodStatus call resolves: setIsHod, setHodProjects and, in its finally
\* block, setLoading(false).
ResolveHodStatus(f, error) ==
    /\ f \in authContext.fetches /\ f.fn = "fetchHodStatus"
    /\ LET data == IF error THEN {} ELSE fetchHodStatus(f.userId)
       IN authContext' = [authContext EXCEPT
             !.isHod = data # {}, !.hodProjects = data, !.loading = FALSE,
             !.fetches = @ \ {f}]
    /\ UNCHANGED <<tables, calls, project_hods, timesheets, ts_seq, lastOp, reports, weekly>>

(***************************************************************************)
(* Specification of the role table under concurrent admin-update-role      *)
(***************************************************************************)

RoleBodies ==
    [parses : {TRUE}, userId : Accounts, newRole : AppRole]

\* alice is the admin, bob a regular account; carol has not signed up.
InitTables ==
    /\ authUsers = {"alice", "bob"}
    /\ credentials = [x \in {"alice", "bob"} |-> "secret1"]
    /\ user_roles = {[user_id |-> "alice", role |-> "admin"],
                     [user_id |-> "bob", role |-> "user"]}
    /\ profiles = [x \in {"alice", "bob"} |->
                     [employee_id |-> IF x = "alice" THEN "E1" ELSE None,
                      password_changed_at |-> NeverChanged]]
    /\ notifications = EmptyBag


\* No timesheets, no department heads, no Reports page open.
ClosedPage ==
    [open |-> FALSE, isAdmin |-> FALSE, isHod |-> FALSE, hodProjects |-> {},
     timesheets |-> <<>>, editingEntry |-> <<>>]

InitNoSheets ==
    /\ project_hods = {}
    /\ timesheets = <<>>
    /\ ts_seq = 0
    /\ lastOp = NoOp
    /\ reports = [u \in Accounts |-> ClosedPage]
    /\ weekly = EmptyForm
    /\ authContext = SignedOutContext

InitRoles ==
    /\ InitTables
    /\ InitNoSheets
    /\ calls = [r \in Slots |-> IdleCall]

NextRoles ==
    \/ \E r \in Slots, tok \in authUsers, body \in RoleBodies :
          UpdateRoleStart(r, "Bearer", tok, body)
    \/ \E r \in Slots, dbError \in BOOLEAN : UpdateRoleDelete(r, dbError)
    \/ \E r \in Slots, dbError \in BOOLEAN : UpdateRoleInsert(r, dbError)
    \/ \E u \in Accounts : SignUp(u, "E2", "secret1")

SpecRoles == InitRoles /\ [][NextRoles]_vars

(***************************************************************************)
(* Specification of the privileged handlers                                *)
(***************************************************************************)

\* The credential of a request: no header, a token that resolves to nobody, or
\* the token of a signed-up account.
Credentials ==
    {[authHeader |-> None, tokenUser |-> None]}
    \cup {[authHeader |-> "Bearer", tokenUser |-> t] : t \in authUsers \cup {None}}

ApiRoleBodies ==
    [parses : BOOLEAN, userId : {"alice", "bob", None}, newRole : {"admin", "user", "root", None}]

ApiEmployeeIdBodies ==
    [parses : BOOLEAN, userId : {"bob", None}, employeeId : EmpIdInputs]

ApiPasswordBodies ==
    [parses : BOOLEAN, userId : {"bob", None}, newPassword : PasswordInputs]

ApiCreateBodies ==
    [parses : BOOLEAN, firstName : {"Jane", None}, lastName : {"Doe"},
     employeeId : {None, "E1", "E2"}, email : {"bob", "carol"},
     password : {"abc", "secret1"}]

InitApi ==
    /\ InitTables
    /\ InitNoSheets
    /\ calls = [r \in Slots |-> IdleCall]

\* The response leaves the runtime, which keeps nothing of the request.
Deliver(r) ==
    /\ calls[r].pc = "done"
    /\ calls' = [calls EXCEPT ![r] = [IdleCall EXCEPT !.pc = "delivered"]]
    /\ UNCHANGED <<tables, sheets>>

\* The handlers of the edge functions.
Handlers ==
    {"admin-update-role", "admin-update-employee-id", "admin-update-password",
     "get-all-users", "admin-create-user", "notify-missing-empid"}

\* A request served while SUPABASE_URL is not set: the header check comes
\* first, then createClient throws inside the try block.
EnvMissing(r, h, authHeader, tokenUser) ==
    /\ SlotFree(r)
    /\ LET c0 == Received(h, authHeader, tokenUser)
       IN calls' = [calls EXCEPT ![r] =
            IF authHeader = None THEN Respond(c0, 401, "No authorization header")
            ELSE Caught(c0, "supabaseUrl is required")]
    /\ UNCHANGED <<tables, sheets>>

\* The request of slot r is between two awaited calls.
InFlight(r) == calls[r].pc \notin {"idle", "done", "delivered", "crashed"}

\* The awaited client call of a handler rejects instead of returning an error
\* object: control passes to the catch block.
CallRejects(r) ==
    /\ InFlight(r)
    /\ calls' = [calls EXCEPT ![r] = Caught(calls[r], "rejected")]
    /\ UNCHANGED <<tables, sheets>>

\* The handlers are invoked one request at a time here.
Quiet == \A q \in Slots : calls[q].pc \in {"idle", "delivered"}

NextApi ==
    \/ \E r \in Slots, cr \in Credentials, body \in ApiRoleBodies :
          Quiet /\ UpdateRoleStart(r, cr.authHeader, cr.tokenUser, body)
    \/ \E r \in Slots, dbError \in BOOLEAN : UpdateRoleDelete(r, dbError)
    \/ \E r \in Slots, dbError \in BOOLEAN : UpdateRoleInsert(r, dbError)
    \/ \E r \in Slots, cr \in Credentials, body \in ApiEmployeeIdBodies, dbError \in BOOLEAN :
          Quiet /\ UpdateEmployeeIdStart(r, cr.authHeader, cr.tokenUser, body, dbError)
    \/ \E r \in Slots, dbError \in BOOLEAN : UpdateEmployeeIdWrite(r, dbError)
    \/ \E r \in Slots, cr \in Credentials, body \in ApiPasswordBodies :
          Quiet /\ UpdatePasswordStart(r, cr.authHeader, cr.tokenUser, body)
    \/ \E r \in Slots, idpError \in BOOLEAN, stampError \in BOOLEAN :
          UpdatePasswordWrite(r, idpError, stampError)
    \/ \E r \in Slots, cr \in Credentials, dbError \in BOOLEAN :
          Quiet /\ GetAllUsers(r, cr.authHeader, cr.tokenUser, dbError)
    \/ \E r \in Slots, cr \in Credentials, body \in ApiCreateBodies, dbError \in BOOLEAN :
          Quiet /\ CreateUserStart(r, cr.authHeader, cr.tokenUser, body, dbError)
    \/ \E r \in Slots, idpError \in BOOLEAN : CreateUserCreate(r, idpError)
    \/ \E r \in Slots, dbError \in BOOLEAN : CreateUserProfile(r, dbError)
    \/ \E r \in Slots, cr \in Credentials, dbError \in BOOLEAN :
          Quiet /\ NotifyStart(r, cr.authHeader, cr.tokenUser, dbError)
    \/ \E r \in Slots, dbError \in BOOLEAN : NotifyExisting(r, dbError)
    \/ \E r \in Slots, dbError \in BOOLEAN : NotifyInsert(r, dbError)
    \/ \E r \in Slots : Deliver(r)

SpecApi == InitApi /\ [][NextApi]_vars

(***************************************************************************)
(* Specification of the employee codes under concurrent writers            *)
(***************************************************************************)

\* Employee codes as typed into the signup and create-user forms.
CodeInputs == {"E1", " E1 ", "E2"}

CodeEmployeeIdBodies ==
    [parses : {TRUE}, userId : {"bob", "carol"}, employeeId : {"", "E1", " E1 ", "E2"}]

CodeCreateBodies ==
    [parses : {TRUE}, firstName : {"Jane"}, lastName : {"Doe"},
     employeeId : CodeInputs, email : {"carol"}, password : {"abc", "secret1"}]

InitCodes ==
    /\ InitTables
    /\ InitNoSheets
    /\ calls = [r \in Slots |-> IdleCall]

\* alice, the admin, issues the requests; every account edits its own profile.
NextCodes ==
    \/ \E u \in Accounts, employeeId \in CodeInputs : SignUp(u, employeeId, "secret1")
    \/ \E u \in Accounts, editEmpId \in {"", "E1"} : handleSave(u, editEmpId)
    \/ \E r \in Slots, body \in CodeEmployeeIdBodies :
          UpdateEmployeeIdStart(r, "Bearer", "alice", body, FALSE)
    \/ \E r \in Slots : UpdateEmployeeIdWrite(r, FALSE)
    \/ \E r \in Slots, body \in CodeCreateBodies :
          CreateUserStart(r, "Bearer", "alice", body, FALSE)
    \/ \E r \in Slots : CreateUserCreate(r, FALSE)
    \/ \E r \in Slots : CreateUserProfile(r, FALSE)
    \/ \E r \in Slots : Deliver(r)

SpecCodes == InitCodes /\ [][NextCodes]_vars

(***************************************************************************)
(* Specification of the handlers with exceptions                           *)
(***************************************************************************)

\* The next statement of the request of slot r, whatever its outcome.
Continue(r) ==
    \/ \E dbError \in BOOLEAN : UpdateRoleDelete(r, dbError)
    \/ \E dbError \in BOOLEAN : UpdateRoleInsert(r, dbError)
    \/ \E dbError \in BOOLEAN : UpdateEmployeeIdWrite(r, dbError)
    \/ \E idpError \in BOOLEAN, stampError \in BOOLEAN :
          UpdatePasswordWrite(r, idpError, stampError)
    \/ \E idpError \in BOOLEAN : CreateUserCreate(r, idpError)
    \/ \E dbError \in BOOLEAN : CreateUserProfile(r, dbError)
    \/ \E dbError \in BOOLEAN : NotifyExisting(r, dbError)
    \/ \E dbError \in BOOLEAN : NotifyInsert(r, dbError)
    \/ CallRejects(r)

NextCatch ==
    \/ NextApi
    \/ \E r \in Slots, h \in Handlers, cr \in Credentials :
          Quiet /\ EnvMissing(r, h, cr.authHeader, cr.tokenUser)
    \/ \E r \in Slots : CallRejects(r)

\* The runtime resumes a handler once the call it awaits has settled.
SpecCatch == InitApi /\ [][NextCatch]_vars /\ \A r \in Slots : WF_vars(Continue(r))

(***************************************************************************)
(* Specification of concurrent notify-missing-empid runs                   *)
(***************************************************************************)

InitNotify ==
    /\ InitTables
    /\ InitNoSheets
    /\ calls = [r \in Slots |-> IdleCall]

\* alice, the admin, starts the runs, which overlap; accounts sign up and
\* set or clear their own employee code in between.
NextNotify ==
    \/ \E r \in Slots : NotifyStart(r, "Bearer", "alice", FALSE)
    \/ \E r \in Slots : NotifyExisting(r, FALSE)
    \/ \E r \in Slots : NotifyInsert(r, FALSE)
    \/ \E r \in Slots : Deliver(r)
    \/ \E u \in Accounts : SignUp(u, "E2", "secret1")
    \/ \E u \in Accounts, editEmpId \in {"", "E1"} : handleSave(u, editEmpId)

SpecNotify == InitNotify /\ [][NextNotify]_vars

(***************************************************************************)
(* Specification of the row policies of timesheets                         *)
(***************************************************************************)

\* alice is the admin, bob a regular account, carol a department head.
InitSheetTables ==
    /\ authUsers = Accounts
    /\ credentials = [x \in Accounts |-> "secret1"]
    /\ user_roles = {[user_id |-> "alice", role |-> "admin"],
                     [user_id |-> "bob", role |-> "user"],
                     [user_id |-> "carol", role |-> "hod"]}
    /\ profiles = [x \in Accounts |->
                     [employee_id |-> IF x = "alice" THEN "E1" ELSE IF x = "bob" THEN "E2" ELSE "E3",
                      password_changed_at |-> NeverChanged]]
    /\ notifications = EmptyBag
    /\ calls = [r \in Slots |-> IdleCall]

\* carol heads Alpha; in the second assignment bob, whose role is 'user', heads Beta.
HodAssignments ==
    {{[project_id |-> "p1", user_id |-> "carol"]},
     {[project_id |-> "p1", user_id |-> "carol"], [project_id |-> "p2", user_id |-> "bob"]}}

\* The SET clauses a client sends.
Patches ==
    {[status |-> st] : st \in TimesheetStatus}
    \cup {[hours |-> h] : h \in {0, 4}}
    \cup {[description |-> "note"]}

\* The rows a client sends to INSERT: any owner, with and without a status.
InsertRows ==
    {[NewTimesheet(owner, "Alpha", 8) EXCEPT !.status = st] :
        owner \in Accounts, st \in {"pending", "approved"}}

InitPolicies ==
    /\ InitSheetTables
    /\ project_hods \in HodAssignments
    /\ timesheets = <<>>
    /\ ts_seq = 0
    /\ lastOp = NoOp
    /\ reports = [u \in Accounts |-> ClosedPage]
    /\ weekly = EmptyForm
    /\ authContext = SignedOutContext

NextPolicies ==
    \/ \E uid \in Accounts, project \in ProjectNames : SubmitTimesheet(uid, project, 8)
    \/ \E uid \in Accounts, row \in InsertRows : DataInsert(uid, row)
    \/ \E uid \in Accounts : DataSelect(uid)
    \/ \E uid \in Accounts, id \in 1..MaxEntries, patch \in Patches : DataUpdate(uid, id, patch)
    \/ \E uid \in Accounts, id \in 1..MaxEntries : DataDelete(uid, id)

SpecPolicies == InitPolicies /\ [][NextPolicies]_vars

(***************************************************************************)
(* Specification of the dashboard statistics                               *)
(***************************************************************************)

\* The entry the table holds at the start: 4 approved hours of alice or carol.
SeedRows ==
    {[NewEntry(owner, "Alpha", 4, Today, Today) EXCEPT !.status = "approved"] :
        owner \in {"alice", "carol"}}

InitStats ==
    /\ InitSheetTables
    /\ project_hods = {[project_id |-> "p1", user_id |-> "carol"]}
    /\ \E row \in SeedRows : timesheets = [id \in {0} |-> row]
    /\ ts_seq = 0
    /\ lastOp = NoOp
    /\ reports = [u \in Accounts |-> ClosedPage]
    /\ weekly = EmptyForm
    /\ authContext = SignedOutContext

NextStats ==
    \/ \E uid \in {"bob", "carol"}, project \in {"Alpha", "Leave"},
          start_date \in {Today - 8, Today - 7} :
          SubmitEntry(uid, profiles[uid].employee_id, project, "8", start_date, Today)
    \/ SubmitEntry("bob", profiles["bob"].employee_id, "Alpha", "8", Today + 7, Today + 7)
    \/ \E uid \in Accounts, id \in 0..MaxEntries, st \in {"approved", "rejected"} :
          DataUpdate(uid, id, [status |-> st])
    \/ \E uid \in Accounts, id \in 0..MaxEntries : DataDelete(uid, id)

SpecStats == InitStats /\ [][NextStats]_vars

(***************************************************************************)
(* Specification of the Reports page                                       *)
(***************************************************************************)

InitReports ==
    /\ InitSheetTables
    /\ project_hods \in HodAssignments
    /\ timesheets = <<>>
    /\ ts_seq = 0
    /\ lastOp = NoOp
    /\ reports = [u \in Accounts |-> ClosedPage]
    /\ weekly = EmptyForm
    /\ authContext = SignedOutContext

NextReports ==
    \/ \E project \in ProjectNames : SubmitTimesheet("bob", project, 8)
    \/ \E project \in ProjectNames, hours \in {"0", "8", "25"}, end_date \in {Today - 1, Today} :
          SubmitEntry("bob", "E2", project, hours, Today, end_date)
    \/ \E u \in Accounts : OpenReports(u)
    \/ \E u \in Accounts, id \in 1..MaxEntries, newStatus \in {"approved", "rejected"} :
          handleStatusChange(u, id, newStatus)
    \/ \E u \in Accounts, id \in 1..MaxEntries : handleDelete(u, id)
    \/ \E u \in Accounts, id \in 1..MaxEntries : openEditDialog(u, id)
    \/ \E u \in Accounts : closeEditDialog(u)
    \/ \E u \in Accounts, editDescription \in EditDescriptionInputs,
          editHours \in EditHoursInputs \cup {"8"} :
          handleUpdateDescription(u, editDescription, editHours)

SpecReports == InitReports /\ [][NextReports]_vars

(***************************************************************************)
(* Specification of the weekly form and its drafts                         *)
(***************************************************************************)

InitDrafts ==
    /\ InitSheetTables
    /\ project_hods = {}
    /\ timesheets = <<>>
    /\ ts_seq = 0
    /\ lastOp = NoOp
    /\ reports = [u \in Accounts |-> ClosedPage]
    /\ weekly = EmptyForm
    /\ authContext = SignedOutContext

\* bob uses the form on one device; the session may have ended when the
\* submission asks for the user, and the insert may be answered with an error.
NextDrafts ==
    \/ goToPreviousWeek
    \/ goToNextWeek
    \/ \E entries \in FormEntries : updateEntry(entries)
    \/ saveDraft
    \/ onSubmit("bob")
    \/ \E user \in {None, "bob"} : onSubmitGetUser(user)
    \/ \E dbError \in BOOLEAN : onSubmitInsert("bob", dbError)

SpecDrafts == InitDrafts /\ [][NextDrafts]_vars

(***************************************************************************)
(* Specification of the client auth context                                *)
(***************************************************************************)

InitAuth ==
    /\ InitSheetTables
    /\ project_hods = {[project_id |-> "p1", user_id |-> "carol"]}
    /\ timesheets = <<>>
    /\ ts_seq = 0
    /\ lastOp = NoOp
    /\ reports = [u \in Accounts |-> ClosedPage]
    /\ weekly = EmptyForm
    /\ authContext = SignedOutContext

\* One browser in which alice, the admin, and carol, a department head, sign
\* in and out; every request may be answered with an error.
NextAuth ==
    \/ signOut
    \/ \E sessionUser \in {None, "alice", "carol"} : initializeAuth(sessionUser)
    \/ \E sessionUser \in {None, "alice", "carol"} : onAuthStateChange(sessionUser)
    \/ \E f \in authContext.fetches, error \in BOOLEAN : ResolveUserRole(f, error)
    \/ \E f \in authContext.fetches, error \in BOOLEAN : ResolveHodStatus(f, error)

SpecAuth == InitAuth /\ [][NextAuth]_vars

(***************************************************************************)
(* Properties                                                              *)
(***************************************************************************)

\* The request of slot r is received in this step.
Arrives(r) == calls[r].pc = "idle" /\ calls'[r].pc # "idle"

\* C1: every privileged handler answers a request without an Authorization
\* header, or whose caller cannot be resolved, with 401, and a request of a
\* resolved caller who lacks the admin role with 403 "Admin access required";
\* in both cases the body is not read and no table changes.
C1_AuthFailsClosed ==
    [][\A r \in Slots : Arrives(r) =>
        LET c == calls'[r] IN
        /\ (c.authHeader = None \/ c.caller = None) =>
              /\ c.pc = "done" /\ c.status = 401
              /\ ~c.bodyRead /\ c.issued = {} /\ tables' = tables
        /\ (c.authHeader # None /\ c.caller # None /\ ~has_role(c.caller, "admin")) =>
              /\ c.pc = "done" /\ c.status = 403 /\ c.error = "Admin access required"
              /\ ~c.bodyRead /\ c.issued = {} /\ tables' = tables]_vars

\* C1 witness: a request of a non-admin was answered 403 after one without a
\* resolvable caller was answered 401 (every handler name occurs among such calls).
C1_Witness ==
    /\ calls[1].pc = "delivered"
    /\ calls[2].pc = "done" /\ calls[2].status = 403 /\ calls[2].caller = "bob"
    /\ calls[2].h = "get-all-users"

\* The entries that exist before and after a step.
Kept == DOMAIN timesheets \cap DOMAIN timesheets'

\* An account whose only role is 'user' and that heads no project.
IsRegular(u) ==
    /\ has_role(u, "user") /\ ~has_role(u, "admin")
    /\ \A project \in ProjectNames : ~is_project_hod(u, project)

\* C2 (as claimed): no step takes an entry that is approved or rejected back
\* to pending, whoever issues the statement.
C2_ApprovalOneWay ==
    [][\A id \in Kept :
        timesheets[id].status \in {"approved", "rejected"}
            => timesheets'[id].status # "pending"]_vars

\* C3 (as claimed): a step that changes an entry's status is issued by an
\* admin or by the department head of the entry's project.
C3_StatusChangeByReviewerOnly ==
    [][\A id \in Kept :
        timesheets'[id].status # timesheets[id].status
            => \/ has_role(lastOp'.caller, "admin")
               \/ is_project_hod(lastOp'.caller, timesheets[id].project)]_vars

\* C4 (as claimed): no step changes the hours of an entry that is approved or
\* rejected in the table.
C4_HoursFrozenAfterReview ==
    [][\A id \in Kept :
        timesheets[id].status \in {"approved", "rejected"}
            => timesheets'[id].hours = timesheets[id].hours]_vars

\* C5 (as claimed): a step that takes an entry from pending to approved or
\* rejected stamps the reviewer and the review time and adds exactly one
\* notification for the owner, of the matching type and naming the project.
C5_ReviewStampsAndNotifies ==
    [][\A id \in Kept :
        (timesheets[id].status = "pending"
            /\ timesheets'[id].status \in {"approved", "rejected"})
        => /\ timesheets'[id].reviewed_by = lastOp'.caller
           /\ timesheets'[id].reviewed_at = Now
           /\ notifications' = notifications (+) SetToBag({Notification(
                  timesheets[id].user_id, NotificationType(timesheets'[id].status),
                  timesheets[id].project, id)})]_vars

\* C6: the latest statement of a regular account read exactly the entries the
\* account owns, and matched the entry it was to update or delete exactly when
\* the account owns it; the latest statement of an admin read every entry and
\* matched the entry it addressed; a matched update that broke no constraint
\* was applied and a matched delete removed the entry.
C6_OwnerOrAdminAccess ==
    LET c == lastOp.caller
        targeted == lastOp.op \in {"update", "delete"} /\ lastOp.owner # None
    IN /\ (lastOp.op = "select" /\ IsRegular(c)) =>
              lastOp.rows = {id \in DOMAIN timesheets : timesheets[id].user_id = c}
       /\ (lastOp.op = "select" /\ has_role(c, "admin")) =>
              lastOp.rows = DOMAIN timesheets
       /\ (targeted /\ IsRegular(c)) => (lastOp.matched <=> lastOp.owner = c)
       /\ (targeted /\ has_role(c, "admin")) => lastOp.matched
       /\ (targeted /\ (IsRegular(c) \/ has_role(c, "admin"))) =>
              /\ (lastOp.matched /\ ~lastOp.error) <=> lastOp.applied
              /\ lastOp.op = "delete" =>
                    (lastOp.matched <=> lastOp.id \notin DOMAIN timesheets)

\* C6 witness: a regular account's delete of an entry of another account
\* matched no row, and the entry is still there.
C6_Witness ==
    /\ lastOp.op = "delete" /\ lastOp.caller = "bob" /\ IsRegular("bob")
    /\ lastOp.owner = "carol" /\ ~lastOp.matched
    /\ lastOp.id \in DOMAIN timesheets

\* C7: the latest statement of a department head who is not an admin read
\* every entry of the projects they head and beyond those only entries they
\* own, matched the entry it was to update when it is of a project they head,
\* matched no entry of another project that they do not own, and as a delete
\* matched no entry that they do not own.
C7_HodAccess ==
    LET c == lastOp.caller
        headed == {project \in ProjectNames : is_project_hod(c, project)}
        isHead == c # None /\ headed # {} /\ ~has_role(c, "admin")
        targeted == lastOp.owner # None
    IN /\ (lastOp.op = "select" /\ isHead) =>
              lastOp.rows = {id \in DOMAIN timesheets :
                                \/ timesheets[id].project \in headed
                                \/ timesheets[id].user_id = c}
       /\ (lastOp.op = "update" /\ isHead /\ targeted) =>
              /\ lastOp.project \in headed => lastOp.matched
              /\ (lastOp.project \notin headed /\ lastOp.owner # c) => ~lastOp.matched
              /\ lastOp.applied => lastOp.matched
       /\ (lastOp.op = "delete" /\ isHead /\ targeted /\ lastOp.owner # c) =>
              /\ ~lastOp.matched /\ ~lastOp.applied
              /\ lastOp.id \in DOMAIN timesheets

\* C7 witness: the head of Alpha tried to delete an entry of Alpha that another
\* account owns, and the entry is still there.
C7_Witness ==
    /\ lastOp.op = "delete" /\ lastOp.caller = "carol"
    /\ is_project_hod("carol", "Alpha") /\ ~has_role("carol", "admin")
    /\ lastOp.owner = "bob" /\ lastOp.project = "Alpha"
    /\ lastOp.id \in DOMAIN timesheets

\* C8: a role change that an admin addresses to their own account with a role
\* other than admin is answered 400 in the step that receives it, user_roles is
\* unchanged, and neither the delete nor the insert is issued.
C8_SelfDemotionRefused ==
    [][\A r \in Slots :
        (/\ Arrives(r)
         /\ calls'[r].h = "admin-update-role"
         /\ calls'[r].status \notin {401, 403}
         /\ calls'[r].userId # None
         /\ calls'[r].userId = calls'[r].caller
         /\ calls'[r].arg # "admin")
        => /\ calls'[r].pc = "done"
           /\ calls'[r].status = 400
           /\ calls'[r].issued = {}
           /\ user_roles' = user_roles]_vars

\* C8 witness: an admin's request to make their own account a department head
\* was refused by the guard.
C8_Witness ==
    \E r \in Slots :
        /\ calls[r].pc = "done" /\ calls[r].h = "admin-update-role"
        /\ calls[r].caller = calls[r].userId /\ calls[r].arg = "hod"
        /\ calls[r].status = 400
        /\ calls[r].error = "Cannot change your own admin role"

\* C11 (as claimed): an admin-update-employee-id request whose employee code is
\* not blank and is the code of a different account is answered 400 in the
\* step that receives it, and no profile row changes.
C11_DuplicateCodeRefused ==
    [][\A r \in Slots :
        (/\ Arrives(r)
         /\ calls'[r].h = "admin-update-employee-id"
         /\ calls'[r].status \notin {401, 403}
         /\ Truthy(calls'[r].arg) /\ Trim(calls'[r].arg) # ""
         /\ \E x \in authUsers :
               x # calls'[r].userId /\ profiles[x].employee_id = calls'[r].arg)
        => /\ calls'[r].pc = "done"
           /\ calls'[r].status = 400
           /\ profiles' = profiles]_vars

\* C12 (as claimed): no two accounts hold the same non-null employee code.
C12_EmployeeCodesUnique ==
    \A x \in authUsers, y \in authUsers :
        (x # y /\ profiles[x].employee_id # None)
            => profiles[x].employee_id # profiles[y].employee_id

\* C13 (as claimed): every stored entry has 0 < hours <= 24 and an end_date
\* not before its start_date.
C13_HoursAndDatesInRange ==
    \A id \in DOMAIN timesheets :
        /\ timesheets[id].hours > 0 /\ timesheets[id].hours <= 24
        /\ timesheets[id].end_date >= timesheets[id].start_date

\* C14 (as claimed): an entry that appears in a step is pending, has no
\* reviewer, and is owned by the caller of the statement that created it.
C14_CreatedPendingByOwner ==
    [][\A id \in DOMAIN timesheets' \ DOMAIN timesheets :
        /\ timesheets'[id].status = "pending"
        /\ timesheets'[id].reviewed_by = None
        /\ timesheets'[id].user_id = lastOp'.caller]_vars

\* The entries of one account, by id.
OwnEntries(u) ==
    [id \in {i \in DOMAIN timesheets : timesheets[i].user_id = u} |-> timesheets[id]]

\* The latest statement inserted a pending 8-hour entry of the last 7 days on
\* a project that is neither LEAVE nor HOLIDAY.
CountedSubmission(op, table) ==
    /\ op.op = "insert" /\ op.applied
    /\ table[op.id].status = "pending" /\ table[op.id].hours = 8
    /\ table[op.id].start_date >= Today - 7
    /\ Upper(table[op.id].project) \notin excluded_projects

\* C15: for an account that is not an admin, a step that leaves the account's
\* own entries as they are leaves its get_dashboard_stats as it is, whatever
\* is created, reviewed or deleted for other accounts; and a step that
\* submits a pending 8-hour entry of the last 7 days on a project other than
\* LEAVE/HOLIDAY raises this_week_hours of the submitting account by exactly
\* 8 and of no other non-admin account.
C15_StatsOfOwnEntriesOnly ==
    [][/\ \A c \in authUsers :
            (~has_role(c, "admin") /\ OwnEntries(c)' = OwnEntries(c))
                => get_dashboard_stats(c)' = get_dashboard_stats(c)
       /\ CountedSubmission(lastOp', timesheets') =>
            \A c \in authUsers :
               /\ c = lastOp'.caller =>
                     get_dashboard_stats(c)'.this_week_hours
                        = get_dashboard_stats(c).this_week_hours + 8
               /\ (c # lastOp'.caller /\ ~has_role(c, "admin")) =>
                     get_dashboard_stats(c)'.this_week_hours
                        = get_dashboard_stats(c).this_week_hours]_vars

\* C15 witness: bob has just submitted 8 counted hours while carol holds an
\* entry of 4 counted hours; each sees only their own hours.
C15_Witness ==
    /\ CountedSubmission(lastOp, timesheets) /\ lastOp.caller = "bob"
    /\ get_dashboard_stats("bob").this_week_hours = 8
    /\ get_dashboard_stats("carol").this_week_hours = 4

\* A check of admin-create-user fails for this body: a field is missing, the
\* password is shorter than 6 characters, or a profile holds the employee code.
CreateChecksFail(body) ==
    \/ ~Truthy(body.firstName) \/ ~Truthy(body.lastName) \/ ~Truthy(body.employeeId)
    \/ ~Truthy(body.email) \/ ~Truthy(body.password)
    \/ Len(body.password) < 6
    \/ Holders(body.employeeId) # {}

\* C16 (as claimed): an admin's admin-create-user request for which a check
\* fails is answered 400 in the step that receives it and no table changes;
\* and the step that creates the identity record belongs to a request whose
\* fields were present with a password of 6 or more characters.
C16_CreateOnlyAfterChecks ==
    [][\A r \in Slots :
        /\ \A body \in CodeCreateBodies :
              (CreateUserStart(r, "Bearer", "alice", body, FALSE) /\ CreateChecksFail(body))
              => /\ calls'[r].pc = "done" /\ calls'[r].status = 400
                 /\ calls'[r].issued = {} /\ tables' = tables
        /\ (calls[r].h = "admin-create-user" /\ "createUser" \in calls'[r].issued
               /\ "createUser" \notin calls[r].issued)
              => /\ calls[r].pc = "create"
                 /\ Truthy(calls[r].userId) /\ Truthy(calls[r].arg)
                 /\ \A password \in calls[r].data : Len(password) >= 6]_vars

\* C17 (as claimed): no account has more than one unread notification of type
\* empid_setup.
C17_AtMostOneUnreadEmpIdNotice ==
    \A u \in Accounts : CopiesIn(EmpIdNotification(u), notifications) <= 1

\* C18 (as claimed): every response of a privileged handler is either status
\* 200 with success: true in the body, or an { error } body with status 400,
\* 401, 403 or 500.
C18_ResponseEnvelope ==
    \A r \in Slots :
        calls[r].pc = "done" =>
            \/ calls[r].status = 200 /\ calls[r].success /\ calls[r].error = None
            \/ calls[r].error # None /\ calls[r].status \in {400, 401, 403, 500}

\* C19 (as claimed): the status of an entry changes at most once: an entry
\* that has left pending keeps the status it was given.
C19_StatusChangesOnce ==
    [][\A id \in Kept :
        (id \in DOMAIN timesheets' /\ timesheets[id].status # "pending")
            => timesheets'[id].status = timesheets[id].status]_vars

C21_StoreErrorIs500 ==
    [][\A r \in Slots :
        (/\ calls[r].h \in {"admin-update-role", "admin-update-employee-id",
                            "notify-missing-empid"}
         /\ calls[r].pc \in {"delete", "insert", "update"}
         /\ calls'[r].pc = "done" /\ ~calls'[r].success)
        => calls'[r].status = 500 /\ calls'[r].error # None]_vars

\* C22: every request to a privileged handler ends with exactly one response:
\* a request that was received is eventually answered, an answer is never
\* replaced by another, every answer carries one of the handler's statuses,
\* and a body that does not parse, a missing environment value after the
\* header check, or a rejected client call is answered 500 with an error.
C22_OneResponseAlways ==
    /\ \A r \in Slots : (calls[r].pc # "idle") ~> (calls[r].pc \in {"done", "delivered"})
    /\ [][\A r \in Slots :
            /\ calls'[r].pc # "crashed"
            /\ calls[r].pc = "done"
                  => calls'[r] = calls[r] \/ calls'[r].pc = "delivered"
            /\ calls[r].pc = "delivered" => calls'[r] = calls[r]
            /\ (calls[r].pc # "done" /\ calls'[r].pc = "done")
                  => /\ calls'[r].status \in {200, 400, 401, 403, 500}
                     /\ calls'[r].status = 200 <=> calls'[r].error = None
            /\ (EnvMissing(r, calls'[r].h, calls'[r].authHeader, calls'[r].caller)
                   /\ calls'[r].authHeader # None)
                  => calls'[r].pc = "done" /\ calls'[r].status = 500
            /\ (Arrives(r) /\ calls'[r].bodyRead /\ calls'[r].userId = None
                   /\ calls'[r].arg = None /\ calls'[r].error = "Unexpected token")
                  => calls'[r].pc = "done" /\ calls'[r].status = 500
            /\ CallRejects(r)
                  => /\ calls'[r].pc = "done" /\ calls'[r].status = 500
                     /\ calls'[r].error # None /\ tables' = tables]_vars

\* C22 witness: after an earlier request was answered, a request whose awaited
\* call rejected after its first write was answered 500 by the catch block.
C22_Witness ==
    /\ calls[1].pc = "delivered"
    /\ calls[2].pc = "done" /\ calls[2].status = 500
    /\ calls[2].error = "rejected" /\ calls[2].issued # {}

\* The code of an admin-update-employee-id request is missing, empty or blank.
BlankCode(code) == ~Truthy(code) \/ Trim(code) = ""

\* C23 (as claimed): admin-update-employee-id with a missing, empty or blank
\* code proceeds to the write without a uniqueness check and stores null;
\* with the code the account already holds it proceeds to the write as well;
\* the write stores the trimmed code and the request succeeds.
C23_TrimmedBlankAndOwnCode ==
    [][\A r \in Slots, u \in authUsers :
        /\ (/\ Arrives(r)
            /\ calls'[r].h = "admin-update-employee-id"
            /\ calls'[r].status \notin {401, 403}
            /\ calls'[r].userId = u)
           => /\ BlankCode(calls'[r].arg) => calls'[r].pc = "update"
              /\ (~BlankCode(calls'[r].arg)
                    /\ profiles[u].employee_id = Trim(calls'[r].arg))
                 => calls'[r].pc = "update"
        /\ (/\ calls[r].h = "admin-update-employee-id"
            /\ calls[r].pc = "update" /\ calls'[r].pc = "done"
            /\ calls[r].userId = u)
           => /\ calls'[r].status = 200 /\ calls'[r].success
              /\ profiles'[u].employee_id =
                    IF BlankCode(calls[r].arg) THEN None ELSE Trim(calls[r].arg)]_vars

\* A submission ends in this step: stopped by validation, without a signed-in
\* user, with an insert error, or with the rows inserted.
SubmissionStopped ==
    \/ \E uid \in Accounts : onSubmit(uid) /\ weekly'.pc = "idle"
    \/ weekly.pc = "getUser" /\ weekly'.pc = "idle"
    \/ weekly.pc = "insert" /\ weekly'.pc = "idle"
          /\ weekly'.toast = "Failed to submit timesheet"

SubmissionSucceeded(w) ==
    /\ weekly.pc = "insert" /\ weekly'.pc = "idle"
    /\ weekly'.toast = "Successfully submitted"
    /\ weekly.closure.currentWeekStart = w

\* C24: the stored draft of a week is removed in exactly the steps in which a
\* submission of that week succeeds; a submission that is stopped by the
\* validation, finds no signed-in user or gets an insert error leaves every
\* stored draft and the rows shown unchanged.
C24_DraftClearedOnSuccessOnly ==
    [][/\ \A w \in Weeks :
            /\ SubmissionSucceeded(w) => weekly'.localStorage[WeekKey(w)] = <<>>
            /\ (weekly.localStorage[WeekKey(w)] # <<>>
                  /\ weekly'.localStorage[WeekKey(w)] = <<>>)
               => SubmissionSucceeded(w)
       /\ SubmissionStopped
            => /\ weekly'.localStorage = weekly.localStorage
               /\ weekly'.entries = weekly.entries
               /\ timesheets' = timesheets]_vars

\* C24 witness: the rows of this week were submitted, this week's draft is
\* gone and the draft of another week is still stored.
C24_Witness ==
    /\ weekly.pc = "idle" /\ weekly.toast = "Successfully submitted"
    /\ \E id \in DOMAIN timesheets : timesheets[id].start_date = WeekKey(ThisWeek)
    /\ weekly.localStorage[WeekKey(ThisWeek)] = <<>>
    /\ \E w \in Weeks \ {ThisWeek} : weekly.localStorage[WeekKey(w)] # <<>>

\* C25: drafts are keyed per week. saveDraft stores exactly the rows shown
\* under the key of the displayed week; displaying a week that has a stored
\* draft shows exactly the stored rows; and a step changes the stored draft of
\* a week only when it saves while that week is displayed or ends a
\* submission made from that week, so the drafts of all other weeks stay.
C25_DraftsKeyedPerWeek ==
    [][/\ saveDraft =>
             LET item == weekly'.localStorage[WeekKey(weekly.currentWeekStart)]
             IN /\ item # <<>>
                /\ JSON_parse(item).entries = weekly.entries
                /\ JSON_parse(item).weekStart = WeekKey(weekly.currentWeekStart)
       /\ \A w \in Weeks :
             /\ (/\ weekly'.currentWeekStart = w /\ weekly.currentWeekStart # w
                 /\ weekly.localStorage[WeekKey(w)] # <<>>)
                => /\ weekly'.entries = JSON_parse(weekly.localStorage[WeekKey(w)]).entries
                   /\ weekly'.localStorage = weekly.localStorage
             /\ weekly'.localStorage[WeekKey(w)] # weekly.localStorage[WeekKey(w)]
                => \/ saveDraft /\ weekly.currentWeekStart = w
                   \/ weekly.pc = "insert" /\ weekly.closure.currentWeekStart = w]_vars

\* C25 witness: drafts of all three weeks are stored, no two the same, and the
\* form, back on this week, shows the two rows saved for it.
C25_Witness ==
    /\ weekly.currentWeekStart = ThisWeek
    /\ \A w \in Weeks : weekly.localStorage[WeekKey(w)] # <<>>
    /\ \A v, w \in Weeks :
          v # w => JSON_parse(weekly.localStorage[WeekKey(v)]).entries
                      # JSON_parse(weekly.localStorage[WeekKey(w)]).entries
    /\ Len(weekly.entries) = 2
    /\ weekly.entries = JSON_parse(weekly.localStorage[WeekKey(ThisWeek)]).entries

\* C26 (as claimed): for every caller, total_hours is the sum of the hours of
\* the entries in scope (all for an admin, the caller's own otherwise) that are
\* approved and whose project is not LEAVE or HOLIDAY in any letter case, and
\* this_week_hours is the sum over the entries in scope that are pending or
\* approved, not on LEAVE or HOLIDAY, and whose start_date lies within the last
\* 7 days; rejected entries count for neither.
C26_StatsSums ==
    \A c \in authUsers :
        LET scope == IF has_role(c, "admin") THEN DOMAIN timesheets
                     ELSE {id \in DOMAIN timesheets : timesheets[id].user_id = c}
            work(id) == timesheets[id].project \notin
                           {"LEAVE", "Leave", "leave", "HOLIDAY", "Holiday", "holiday"}
            lastDays(id) == /\ timesheets[id].start_date >= Today - 7
                            /\ timesheets[id].start_date <= Today
            hoursIf(id, counts) == IF counts THEN timesheets[id].hours ELSE 0
        IN /\ get_dashboard_stats(c).total_hours =
                 Sum([id \in scope |->
                        hoursIf(id, timesheets[id].status = "approved" /\ work(id))])
           /\ get_dashboard_stats(c).this_week_hours =
                 Sum([id \in scope |->
                        hoursIf(id, /\ timesheets[id].status \in {"pending", "approved"}
                                    /\ work(id) /\ lastDays(id))])

\* C27 (as claimed): whenever no admin-update-role request is under way, at
\* least one signed-up account holds the admin role.
C27_SomeAdminRemains ==
    (\A r \in Slots : calls[r].pc \in {"idle", "done", "delivered"})
        => \E u \in authUsers : has_role(u, "admin")

\* C28 (as claimed): whenever the auth context has no user, its role is null,
\* isHod is false and hodProjects is empty.
C28_SignedOutContextIsEmpty ==
    authContext.user = None
        => /\ authContext.role = None
           /\ ~authContext.isHod
           /\ authContext.hodProjects = {}

\* C29 (as claimed): whenever loading is false and the context has a user,
\* the role is resolved, and it is admin for a user whose stored role is
\* admin, so the guard !loading && user && role !== 'admin' lets them stay.
C29_RoleResolvedWhenLoaded ==
    (~authContext.loading /\ authContext.user # None)
        => /\ authContext.role # None
           /\ has_role(authContext.user, "admin") => authContext.role = "admin"

\* C30 (as claimed): the step in which a notify-missing-empid run answers 200
\* inserts notifications only for accounts whose employee code is null, empty
\* or blank; the reported notified + skipped (a skipped the response leaves out
\* read as 0) is the number of those accounts; and skipped is the number of
\* them that already had an unread empid_setup notification.
C30_NotifiedAndSkippedCount ==
    [][\A r \in Slots :
        (/\ calls'[r].h = "notify-missing-empid"
         /\ calls[r].pc # "done" /\ calls'[r].pc = "done"
         /\ calls'[r].status = 200)
        => LET blank == {x \in authUsers : BlankCode(profiles[x].employee_id)}
               had == blank \cap UsersWithUnreadEmpId
               skipped == IF calls'[r].skipped = Absent THEN 0 ELSE calls'[r].skipped
           IN /\ \A u \in authUsers :
                    CopiesIn(EmpIdNotification(u), notifications')
                        > CopiesIn(EmpIdNotification(u), notifications)
                    => u \in blank
              /\ calls'[r].notified + skipped = Cardinality(blank)
              /\ skipped = Cardinality(had)]_vars

\* C9 (as claimed): when an admin-update-role call for account U completes with
\* status 200, user_roles holds at most one row for U.
C9_OneRowAfterRoleChange ==
    [][\A r \in Slots :
        (/\ calls[r].pc = "insert" /\ calls[r].h = "admin-update-role"
         /\ calls'[r].pc = "done" /\ calls'[r].status = 200)
        => Cardinality({row \in user_roles' : row.user_id = calls[r].userId}) <= 1]_vars

\* C10 (as claimed): every signed-up account has exactly one row in user_roles.
C10_ExactlyOneRolePerAccount ==
    \A u \in authUsers : Cardinality(RolesOf(u)) = 1

====
